---- MODULE Spec2Model ----
(***************************************************************************)
(* Model of addAccountsToBreach/main.go: the Lambda handler that adds a    *)
(* batch of email accounts to a named breach in the "Breaches" table.      *)
(*                                                                         *)
(* Strings that the program inspects character by character (the raw      *)
(* emails, the keys built from them) are sequences of one-character        *)
(* strings; opaque strings (breach names, message templates) are TLA+      *)
(* strings.  A []string of Go is a sequence.                               *)
(***************************************************************************)
EXTENDS Integers, Sequences, FiniteSets, TLC

(***************************************************************************)
(* Bounds of the model.                                                    *)
(***************************************************************************)
\* longest batch of raw emails one event carries
MaxBatch == 2

(***************************************************************************)
(* Character classes of emailRegex (main.go:186).                          *)
(***************************************************************************)
Letters ==
    {"a","b","c","d","e","f","g","h","i","j","k","l","m",
     "n","o","p","q","r","s","t","u","v","w","x","y","z",
     "A","B","C","D","E","F","G","H","I","J","K","L","M",
     "N","O","P","Q","R","S","T","U","V","W","X","Y","Z"}

Digits == {"0","1","2","3","4","5","6","7","8","9"}

\* [a-zA-Z0-9]
AlnumChars == Letters \cup Digits

\* the grave accent of the local-part class (a token: the module's strings
\* cannot hold the character itself)
Grave == "grave"

\* [a-zA-Z0-9.!#$%&'*+\/=?^_(grave){|}~-]
LocalChars ==
    AlnumChars \cup {".","!","#","$","%","&","'","*","+","/","=","?","^",
                     "_",Grave,"{","|","}","~","-"}

\* [a-zA-Z0-9-]
LabelInnerChars == AlnumChars \cup {"-"}

\* the {0,61} repetition of the label's inner part
MaxLabelInner == 61

(***************************************************************************)
(* strings.Split(s, sep) for a one-character separator: the pieces of s    *)
(* between the occurrences of sep, in order (n occurrences, n+1 pieces).   *)
(***************************************************************************)
\* the positions of sep in s
SepPositions(s, sep) == {i \in 1..Len(s) : s[i] = sep}

\* the first position of sep at or after a, or one past the end of s
NextSep(s, sep, a) ==
    LET after == {i \in SepPositions(s, sep) : i >= a} \cup {Len(s) + 1}
    IN  CHOOSE i \in after : \A i2 \in after : i <= i2

Split(s, sep) ==
    LET seps == SepPositions(s, sep)
        starts == {1} \cup {i + 1 : i \in seps}
    IN  [j \in 1..(Cardinality(seps) + 1) |->
            LET a == CHOOSE a \in starts :
                        Cardinality({i \in seps : i < a}) = j - 1
            IN  SubSeq(s, a, NextSep(s, sep, a) - 1)]

(***************************************************************************)
(* emailRegex.MatchString.  One domain label is                            *)
(*   [a-zA-Z0-9](?:[a-zA-Z0-9-]{0,61}[a-zA-Z0-9])?                         *)
(* and the whole expression, anchored at both ends, is                     *)
(*   ^[local]+@label(?:\.label)*$                                          *)
(***************************************************************************)
\* a label whose first and last characters may be hyphens
LabelMatch_HyphenEdges(l) ==
    /\ Len(l) >= 1
    /\ l[1] \in LabelInnerChars
    /\ \/ Len(l) = 1
       \/ /\ Len(l) - 2 <= MaxLabelInner
          /\ l[Len(l)] \in LabelInnerChars
          /\ \A j \in 2..(Len(l) - 1) : l[j] \in LabelInnerChars

LabelMatch(l) ==
    /\ Len(l) >= 1
    /\ l[1] \in AlnumChars
    /\ \/ Len(l) = 1
       \/ /\ Len(l) - 2 <= MaxLabelInner
          /\ l[Len(l)] \in AlnumChars
          /\ \A j \in 2..(Len(l) - 1) : l[j] \in LabelInnerChars

DomainMatch(d) ==
    LET labels == Split(d, ".")
    IN  \A j \in 1..Len(labels) : LabelMatch(labels[j])

MatchString(s) ==
    \E at \in 1..Len(s) :
        /\ s[at] = "@"
        /\ at > 1
        /\ \A j \in 1..(at - 1) : s[j] \in LocalChars
        /\ DomainMatch(SubSeq(s, at + 1, Len(s)))

(***************************************************************************)
(* type Email, NewEmail and the three formatting methods.                  *)
(***************************************************************************)
\* Go's nil error
NoErr == "nil"

\* Email{}: both fields the empty string
ZeroEmail == [Alias |-> <<>>, Domain |-> <<>>]

\* fmt.Errorf("not a valid email address: %s", emailStr)
NewEmailErr == "not a valid email address"

NewEmail(emailStr) ==
    IF ~MatchString(emailStr)
    THEN [email |-> ZeroEmail, err |-> NewEmailErr]
    ELSE LET email == Split(emailStr, "@")
         IN  [email |-> [Alias |-> email[1], Domain |-> email[2]],
              err |-> NoErr]

\* the literal "EMAIL#" of the two key formats
KeyPrefix == <<"E","M","A","I","L","#">>

\* fmt.Sprintf("%s@%s", e.Alias, e.Domain)
EmailAccount(e) == e.Alias \o <<"@">> \o e.Domain

\* a partition key built from the alias
PartitionKey_FromAlias(e) == KeyPrefix \o e.Alias

\* fmt.Sprintf("EMAIL#%s", e.Domain)
PartitionKey(e) == KeyPrefix \o e.Domain

\* a sort key without the alias
SortKey_NoAlias(e) == KeyPrefix

\* fmt.Sprintf("EMAIL#%s", e.Alias)
SortKey(e) == KeyPrefix \o e.Alias

(***************************************************************************)
(* type Account and the package-level variables.                           *)
(***************************************************************************)
\* var entityType = "Account"
entityType == "Account"

\* contains that never finds the string
contains_Never(arr, str) == FALSE

\* contains(arr, str)
contains(arr, str) == \E j \in 1..Len(arr) : arr[j] = str

(***************************************************************************)
(* mapToAccount.  The loop tests err, which nothing has assigned yet,      *)
(* where NewEmail's emailErr is the error at hand: MapLoop carries err     *)
(* through the iterations exactly as the code does.                        *)
(***************************************************************************)
RECURSIVE MapLoop(_, _, _, _)
MapLoop(rawAccounts, i, accs, err) ==
    IF i > Len(rawAccounts) THEN [accs |-> accs, err |-> err]
    ELSE LET r == NewEmail(rawAccounts[i])
             newAccount == [PK       |-> PartitionKey(r.email),
                            SK       |-> SortKey(r.email),
                            Type     |-> entityType,
                            Account  |-> EmailAccount(r.email),
                            Breaches |-> <<>>]
         IN  IF err # NoErr
             THEN [accs |-> accs, err |-> r.err]
             ELSE MapLoop(rawAccounts, i + 1, Append(accs, newAccount), err)

mapToAccount(rawAccounts) ==
    LET r == MapLoop(rawAccounts, 1, <<>>, NoErr)
    IN  IF r.err # NoErr THEN [accs |-> <<>>, err |-> r.err]
        ELSE [accs |-> r.accs, err |-> NoErr]

(***************************************************************************)
(* dynamodbattribute.MarshalMap / UnmarshalMap on an Account: a string     *)
(* field becomes an S attribute, the []string a list (L) of S attributes.  *)
(***************************************************************************)
\* a marshalling that leaves the Type field out
MarshalMap_NoType(account) ==
    [PK       |-> [S |-> account.PK],
     SK       |-> [S |-> account.SK],
     Account  |-> [S |-> account.Account],
     Breaches |-> [L |-> [j \in 1..Len(account.Breaches) |->
                             [S |-> account.Breaches[j]]]]]

MarshalMap(account) ==
    [PK       |-> [S |-> account.PK],
     SK       |-> [S |-> account.SK],
     Type     |-> [S |-> account.Type],
     Account  |-> [S |-> account.Account],
     Breaches |-> [L |-> [j \in 1..Len(account.Breaches) |->
                             [S |-> account.Breaches[j]]]]]

UnmarshalMap(item) ==
    [PK       |-> item.PK.S,
     SK       |-> item.SK.S,
     Type     |-> item.Type.S,
     Account  |-> item.Account.S,
     Breaches |-> [j \in 1..Len(item.Breaches.L) |-> item.Breaches.L[j].S]]

\* marshalMapToAttributeValues: MarshalMap of every account, in order
marshalMapToAttributeValues(accs) ==
    [j \in 1..Len(accs) |-> MarshalMap(accs[j])]

(***************************************************************************)
(* The table: a function from the primary key <<PK, SK>> to the item       *)
(* stored under it; a key outside its domain has no item.                  *)
(***************************************************************************)
ItemKey(item) == <<item.PK.S, item.SK.S>>

\* svc.GetItem: result.Item is nil when the key has no item
GetItem(table, pk, sk) ==
    IF <<pk, sk>> \in DOMAIN table
    THEN [IsNil |-> FALSE, Item |-> table[<<pk, sk>>]]
    ELSE [IsNil |-> TRUE]

\* a put that replaces an item and creates none
PutItem_NoCreate(table, item) ==
    [k \in DOMAIN table |-> IF k = ItemKey(item) THEN item ELSE table[k]]

\* svc.PutItem: the item replaces whatever the key held
PutItem(table, item) ==
    [k \in (DOMAIN table) \cup {ItemKey(item)} |->
        IF k = ItemKey(item) THEN item ELSE table[k]]

(***************************************************************************)
(* One iteration of setAccountBreaches after a GetItem that succeeded:    *)
(* the account with its Breaches set from the item read.                   *)
(***************************************************************************)
\* a merge that keeps only the new name
MergeBreaches_Overwrite(existingBreaches, breachName) ==
    IF contains(existingBreaches, breachName)
    THEN existingBreaches
    ELSE <<breachName>>

\* a merge that puts the new name in the place of the last one
MergeBreaches_ReplaceLast(existingBreaches, breachName) ==
    IF contains(existingBreaches, breachName)
    THEN existingBreaches
    ELSE [existingBreaches EXCEPT ![Len(existingBreaches)] = breachName]

\* a merge with its test negated
MergeBreaches_Inverted(existingBreaches, breachName) ==
    IF ~contains(existingBreaches, breachName)
    THEN existingBreaches
    ELSE Append(existingBreaches, breachName)

MergeBreaches(existingBreaches, breachName) ==
    IF contains(existingBreaches, breachName)
    THEN existingBreaches
    ELSE Append(existingBreaches, breachName)

\* setAccountBreaches without its else branch: a new account keeps the empty
\* Breaches mapToAccount gave it
SetBreaches_NewAccountEmpty(account, result, breachName) ==
    IF ~result.IsNil
    THEN LET existingAcc == UnmarshalMap(result.Item)
         IN  [account EXCEPT
                 !.Breaches = MergeBreaches(existingAcc.Breaches, breachName)]
    ELSE account

SetBreaches(account, result, breachName) ==
    IF ~result.IsNil
    THEN LET existingAcc == UnmarshalMap(result.Item)
         IN  [account EXCEPT
                 !.Breaches = MergeBreaches(existingAcc.Breaches, breachName)]
    ELSE [account EXCEPT !.Breaches = <<breachName>>]

(***************************************************************************)
(* Inputs of the model: the raw emails and breach names events draw from.  *)
(***************************************************************************)
\* "a@x": a valid address
RawAX == <<"a", "@", "x">>
\* "b@y.c": a valid address of another domain
RawBY == <<"b", "@", "y", ".", "c">>
\* "ax": no '@', not an email
RawBad == <<"a", "x">>

RawPool == {RawAX, RawBY, RawBad}

BreachNames == {"LeakA", "LeakB"}

RECURSIVE SeqsUpTo(_, _)
SeqsUpTo(S, n) ==
    IF n = 0 THEN {<<>>}
    ELSE LET shorter == SeqsUpTo(S, n - 1)
         IN  shorter \cup {Append(q, x) : q \in shorter, x \in S}

\* type AddAccountEvent
Events ==
    [Accounts : SeqsUpTo(RawPool, MaxBatch), BreachName : BreachNames]

\* the invocations of the handler that may overlap
Procs == {1, 2}

(***************************************************************************)
(* State.                                                                  *)
(*   store     the Breaches table                                          *)
(*   pc        where each invocation of Handler stands: "idle" (waiting    *)
(*             for an event), "get" (in the loop of setAccountBreaches),   *)
(*             "put" (in the PutItem loop of Handler), "returned" (Handler *)
(*             has returned, the response is on its way to the caller)     *)
(*   event     the event of the invocation                                 *)
(*   accounts  Handler's accounts                                          *)
(*   accs      setAccountBreaches' accs                                    *)
(*   attrVals  Handler's attrVals                                          *)
(*   idx       position of the running loop in its slice                   *)
(*   resp      the Response and error Handler returned                     *)
(*   oplog     history: the store calls of the invocation, in order        *)
(*   store0    history: the table when the current serial invocation began *)
(*   rerun     history: the current serial invocation repeats the event of *)
(*             the one before it, which succeeded                          *)
(***************************************************************************)
VARIABLES store, pc, event, accounts, accs, attrVals, idx, resp, oplog,
          store0, rerun

vars == <<store, pc, event, accounts, accs, attrVals, idx, resp, oplog,
          store0, rerun>>

locals == <<accounts, accs, attrVals, idx>>
history == <<store0, rerun>>

\* the errors of the SDK calls
GetItemErr == "GetItem failed"
PutItemErr == "PutItem failed"

\* the Body formats of Handler's returns
BodyInvalidEmail == "Invalid email: %s"
BodyErrorAdding == "Error adding Account %+v to breach: %s"
BodySuccess == "Successfully added/updated %d accounts to the %s breach."

NoResponse == [StatusCode |-> 0, Body |-> "", Count |-> 0, err |-> NoErr]

\* return Response{StatusCode: 400, Body: fmt.Sprintf(body, err)}, err
ErrorResponse(body, err) ==
    [StatusCode |-> 400, Body |-> body, Count |-> 0, err |-> err]

\* the 200 response of main.go:72-89
SuccessResponse(numAccounts) ==
    [StatusCode |-> 200, Body |-> BodySuccess, Count |-> numAccounts,
     err |-> NoErr]

NoEvent == [Accounts |-> <<>>, BreachName |-> ""]
EmptyTable == [k \in {} |-> 0]

Init ==
    /\ store = EmptyTable
    /\ pc = [p \in Procs |-> "idle"]
    /\ event = [p \in Procs |-> NoEvent]
    /\ accounts = [p \in Procs |-> <<>>]
    /\ accs = [p \in Procs |-> <<>>]
    /\ attrVals = [p \in Procs |-> <<>>]
    /\ idx = [p \in Procs |-> 0]
    /\ resp = [p \in Procs |-> NoResponse]
    /\ oplog = [p \in Procs |-> <<>>]
    /\ store0 = EmptyTable
    /\ rerun = FALSE

\* Handler returns: its locals are gone, the response is the caller's
Return(p, r) ==
    /\ pc' = [pc EXCEPT ![p] = "returned"]
    /\ resp' = [resp EXCEPT ![p] = r]
    /\ accounts' = [accounts EXCEPT ![p] = <<>>]
    /\ accs' = [accs EXCEPT ![p] = <<>>]
    /\ attrVals' = [attrVals EXCEPT ![p] = <<>>]
    /\ idx' = [idx EXCEPT ![p] = 0]

(***************************************************************************)
(* Handler, main.go:42-54: the event arrives, mapToAccount runs, and       *)
(* setAccountBreaches is entered (or the 400 of line 48 is returned).      *)
(***************************************************************************)
Invoke(p, ev) ==
    /\ pc[p] \in {"idle", "returned"}
    /\ event' = [event EXCEPT ![p] = ev]
    /\ oplog' = [oplog EXCEPT ![p] = <<>>]
    /\ LET m == mapToAccount(ev.Accounts)
       IN  IF m.err # NoErr
           THEN Return(p, ErrorResponse(BodyInvalidEmail, m.err))
           ELSE /\ pc' = [pc EXCEPT ![p] = "get"]
                /\ accounts' = [accounts EXCEPT ![p] = m.accs]
                /\ accs' = [accs EXCEPT ![p] = <<>>]
                /\ idx' = [idx EXCEPT ![p] = 1]
                /\ resp' = [resp EXCEPT ![p] = NoResponse]
                /\ UNCHANGED attrVals
    /\ UNCHANGED store

\* an iteration that puts the merged account right after reading it
GetItemOk_ReadThenWrite(p) ==
    /\ pc[p] = "get"
    /\ idx[p] <= Len(accounts[p])
    /\ LET account == accounts[p][idx[p]]
           result == GetItem(store, account.PK, account.SK)
           merged == SetBreaches(account, result, event[p].BreachName)
       IN  /\ accs' = [accs EXCEPT ![p] = Append(@, merged)]
           /\ store' = PutItem(store, MarshalMap(merged))
           /\ oplog' = [oplog EXCEPT ![p] =
                 @ \o <<[op |-> "get", i |-> idx[p], ok |-> TRUE],
                        [op |-> "put", i |-> idx[p], ok |-> TRUE]>>]
    /\ idx' = [idx EXCEPT ![p] = @ + 1]
    /\ UNCHANGED <<pc, event, accounts, attrVals, resp, history>>

(***************************************************************************)
(* setAccountBreaches, main.go:125-160: one iteration whose GetItem        *)
(* succeeds.  Every item of the table was written by MarshalMap of an      *)
(* Account, so UnmarshalMap does not fail on it.                           *)
(***************************************************************************)
GetItemOk(p) ==
    /\ pc[p] = "get"
    /\ idx[p] <= Len(accounts[p])
    /\ LET account == accounts[p][idx[p]]
           result == GetItem(store, account.PK, account.SK)
       IN  /\ accs' = [accs EXCEPT ![p] =
                 Append(@, SetBreaches(account, result, event[p].BreachName))]
           /\ oplog' = [oplog EXCEPT ![p] =
                 Append(@, [op |-> "get", i |-> idx[p], ok |-> TRUE])]
    /\ idx' = [idx EXCEPT ![p] = @ + 1]
    /\ UNCHANGED <<store, pc, event, accounts, attrVals, resp, history>>

(***************************************************************************)
(* main.go:137-141, 161-163 and 52-54: GetItem fails, the loop breaks,     *)
(* setAccountBreaches returns the error and Handler returns 400.           *)
(***************************************************************************)
GetItemFail(p) ==
    /\ pc[p] = "get"
    /\ idx[p] <= Len(accounts[p])
    /\ oplog' = [oplog EXCEPT ![p] =
          Append(@, [op |-> "get", i |-> idx[p], ok |-> FALSE])]
    /\ Return(p, ErrorResponse(BodyInvalidEmail, GetItemErr))
    /\ UNCHANGED <<store, event, history>>

(***************************************************************************)
(* main.go:164 and 51-59: the loop of setAccountBreaches is over, Handler  *)
(* takes its result as accounts and marshals it.                           *)
(***************************************************************************)
MarshalAccounts(p) ==
    /\ pc[p] = "get"
    /\ idx[p] > Len(accounts[p])
    /\ accounts' = [accounts EXCEPT ![p] = accs[p]]
    /\ attrVals' = [attrVals EXCEPT ![p] = marshalMapToAttributeValues(accs[p])]
    /\ accs' = [accs EXCEPT ![p] = <<>>]
    /\ idx' = [idx EXCEPT ![p] = 1]
    /\ pc' = [pc EXCEPT ![p] = "put"]
    /\ UNCHANGED <<store, event, resp, oplog, history>>

\* an iteration that skips the PutItem of an item the table already holds
PutItemOk_SkipUnchanged(p) ==
    /\ pc[p] = "put"
    /\ idx[p] <= Len(attrVals[p])
    /\ LET item == attrVals[p][idx[p]]
           same == ItemKey(item) \in DOMAIN store /\ store[ItemKey(item)] = item
       IN  /\ store' = IF same THEN store ELSE PutItem(store, item)
           /\ oplog' = [oplog EXCEPT ![p] =
                 IF same THEN @
                 ELSE Append(@, [op |-> "put", i |-> idx[p], ok |-> TRUE])]
    /\ idx' = [idx EXCEPT ![p] = @ + 1]
    /\ UNCHANGED <<pc, event, accounts, accs, attrVals, resp, history>>

(***************************************************************************)
(* Handler, main.go:61-70: one iteration whose PutItem succeeds.           *)
(***************************************************************************)
PutItemOk(p) ==
    /\ pc[p] = "put"
    /\ idx[p] <= Len(attrVals[p])
    /\ store' = PutItem(store, attrVals[p][idx[p]])
    /\ oplog' = [oplog EXCEPT ![p] =
          Append(@, [op |-> "put", i |-> idx[p], ok |-> TRUE])]
    /\ idx' = [idx EXCEPT ![p] = @ + 1]
    /\ UNCHANGED <<pc, event, accounts, accs, attrVals, resp, history>>

\* a failed put that is logged and skipped, the loop going on
PutItemFail_Continue(p) ==
    /\ pc[p] = "put"
    /\ idx[p] <= Len(attrVals[p])
    /\ oplog' = [oplog EXCEPT ![p] =
          Append(@, [op |-> "put", i |-> idx[p], ok |-> FALSE])]
    /\ idx' = [idx EXCEPT ![p] = @ + 1]
    /\ UNCHANGED <<store, pc, event, accounts, accs, attrVals, resp, history>>

(***************************************************************************)
(* main.go:66-69: PutItem fails (the table keeps what it held) and         *)
(* Handler returns 400.                                                    *)
(***************************************************************************)
PutItemFail(p) ==
    /\ pc[p] = "put"
    /\ idx[p] <= Len(attrVals[p])
    /\ oplog' = [oplog EXCEPT ![p] =
          Append(@, [op |-> "put", i |-> idx[p], ok |-> FALSE])]
    /\ Return(p, ErrorResponse(BodyErrorAdding, PutItemErr))
    /\ UNCHANGED <<store, event, history>>

\* a response that counts the distinct accounts of the batch
Respond_CountsDistinct(p) ==
    /\ pc[p] = "put"
    /\ idx[p] > Len(attrVals[p])
    /\ Return(p, SuccessResponse(
          Cardinality({accounts[p][j].Account : j \in 1..Len(accounts[p])})))
    /\ UNCHANGED <<store, event, oplog, history>>

(***************************************************************************)
(* main.go:72-89: every PutItem succeeded; the 200 response.               *)
(***************************************************************************)
Respond(p) ==
    /\ pc[p] = "put"
    /\ idx[p] > Len(attrVals[p])
    /\ Return(p, SuccessResponse(Len(accounts[p])))
    /\ UNCHANGED <<store, event, oplog, history>>

(***************************************************************************)
(* main, main.go:92-94: lambda.Start hands the response to the caller and  *)
(* waits for the next event.                                               *)
(***************************************************************************)
Deliver(p) ==
    /\ pc[p] = "returned"
    /\ pc' = [pc EXCEPT ![p] = "idle"]
    /\ event' = [event EXCEPT ![p] = NoEvent]
    /\ resp' = [resp EXCEPT ![p] = NoResponse]
    /\ oplog' = [oplog EXCEPT ![p] = <<>>]
    /\ UNCHANGED <<store, locals>>

(***************************************************************************)
(* Serial use: one invocation at a time (invocation 1), any event after    *)
(* any other, or the same event again right after a success.               *)
(***************************************************************************)
SerialInvoke ==
    \E ev \in Events :
        /\ pc[1] = "idle"
        /\ Invoke(1, ev)
        /\ store0' = store
        /\ rerun' = FALSE

SerialDeliver ==
    /\ Deliver(1)
    /\ store0' = EmptyTable
    /\ rerun' = FALSE

Reinvoke ==
    /\ pc[1] = "returned"
    /\ resp[1].StatusCode = 200
    /\ Invoke(1, event[1])
    /\ store0' = store
    /\ rerun' = TRUE

Next ==
    \/ SerialInvoke
    \/ Reinvoke
    \/ GetItemOk(1)
    \/ GetItemFail(1)
    \/ MarshalAccounts(1)
    \/ PutItemOk(1)
    \/ PutItemFail(1)
    \/ Respond(1)
    \/ SerialDeliver

Spec == Init /\ [][Next]_vars

(***************************************************************************)
(* Overlapping use: the invocations of Procs interleave at their store     *)
(* calls.                                                                  *)
(***************************************************************************)
\* the events of overlapping invocations: batches that list one account,
\* any number of times
ConcEvents ==
    [Accounts : SeqsUpTo({RawAX}, MaxBatch), BreachName : BreachNames]

ConcInvoke ==
    \E p \in Procs, ev \in ConcEvents :
        /\ pc[p] = "idle"
        /\ Invoke(p, ev)
        /\ UNCHANGED history

NextConc ==
    \/ ConcInvoke
    \/ \E p \in Procs : GetItemOk(p)
    \/ \E p \in Procs : GetItemFail(p)
    \/ \E p \in Procs : MarshalAccounts(p)
    \/ \E p \in Procs : PutItemOk(p)
    \/ \E p \in Procs : PutItemFail(p)
    \/ \E p \in Procs : Respond(p)
    \/ \E p \in Procs : Deliver(p) /\ UNCHANGED history

SpecConc == Init /\ [][NextConc]_vars

(***************************************************************************)
(* Vocabulary of the properties.                                           *)
(***************************************************************************)
\* the primary key mapToAccount gives the account built from a raw email
AccountKey(raw) ==
    LET e == NewEmail(raw).email
    IN  <<PartitionKey(e), SortKey(e)>>

\* the breach names of the item a table holds under a key (none: no item)
BreachSet(table, key) ==
    IF key \in DOMAIN table
    THEN {table[key].Breaches.L[j].S : j \in 1..Len(table[key].Breaches.L)}
    ELSE {}

\* the keys of the first n entries of a batch
KeysOfFirst(batch, n) == {AccountKey(batch[j]) : j \in 1..n}

Succeeded(p) == pc[p] = "returned" /\ resp[p].StatusCode = 200

HasInvalidEmail(batch) == \E j \in 1..Len(batch) : ~MatchString(batch[j])

(***************************************************************************)
(* C1.  Validation before store access: an invocation whose batch holds a  *)
(* string that is not an email issues no GetItem and no PutItem, leaves    *)
(* the table as it was, and returns the invalid-email error.               *)
(***************************************************************************)
C1_InvalidBatchTouchesNothing ==
    HasInvalidEmail(event[1].Accounts) =>
        /\ oplog[1] = <<>>
        /\ store = store0
        /\ pc[1] = "returned" =>
              /\ resp[1].StatusCode = 400
              /\ resp[1].err = NewEmailErr

(***************************************************************************)
(* C2.  Idempotence: when an invocation that succeeded is run again with   *)
(* the same event and nothing in between, and succeeds again, every        *)
(* account's stored set of breaches is what the first run left.            *)
(***************************************************************************)
C2_Idempotent ==
    (Succeeded(1) /\ rerun) =>
        \A k \in (DOMAIN store) \cup (DOMAIN store0) :
            BreachSet(store, k) = BreachSet(store0, k)

\* a second run of a batch of two accounts has succeeded; its first run added
\* a breach to a record that held another one
C2_Witness ==
    /\ Succeeded(1)
    /\ rerun
    /\ event[1].Accounts = <<RawAX, RawBY>>
    /\ event[1].BreachName = "LeakB"
    /\ BreachSet(store, AccountKey(RawAX)) = {"LeakA", "LeakB"}
    /\ BreachSet(store, AccountKey(RawBY)) = {"LeakB"}

(***************************************************************************)
(* C3.  No duplicates: whatever invocations run, overlapping or not, with  *)
(* any breach names and with batches that repeat an email, no item of the  *)
(* table lists one breach name twice.                                      *)
(***************************************************************************)
C3_NoDuplicateBreach ==
    \A k \in DOMAIN store :
        \A i, j \in 1..Len(store[k].Breaches.L) :
            store[k].Breaches.L[i] = store[k].Breaches.L[j] => i = j

\* two overlapping invocations, each listing the account twice, both with a
\* breach name the record already held, have both succeeded
C3_Witness ==
    /\ \A p \in Procs :
          /\ Succeeded(p)
          /\ event[p].Accounts = <<RawAX, RawAX>>
          /\ event[p].BreachName = "LeakA"
    /\ Len(store[AccountKey(RawAX)].Breaches.L) = 2

(***************************************************************************)
(* C4.  Union merge: after a successful invocation with breach name n, an  *)
(* account of the batch whose record held the set B, n not in B, has a     *)
(* record holding exactly B with n added.                                  *)
(***************************************************************************)
C4_UnionMerge ==
    Succeeded(1) =>
        \A j \in 1..Len(event[1].Accounts) :
            LET k == AccountKey(event[1].Accounts[j])
            IN  (k \in DOMAIN store0
                    /\ event[1].BreachName \notin BreachSet(store0, k)) =>
                BreachSet(store, k) =
                    BreachSet(store0, k) \cup {event[1].BreachName}

\* "LeakB" was added to a record that held {"LeakA"}
C4_Witness ==
    /\ Succeeded(1)
    /\ event[1].Accounts = <<RawAX>>
    /\ event[1].BreachName = "LeakB"
    /\ BreachSet(store0, AccountKey(RawAX)) = {"LeakA"}
    /\ BreachSet(store, AccountKey(RawAX)) = {"LeakA", "LeakB"}

(***************************************************************************)
(* C5.  New account: after a successful invocation with breach name n, an  *)
(* account of the batch that had no record has one, holding exactly {n}.   *)
(***************************************************************************)
C5_NewAccount ==
    Succeeded(1) =>
        \A j \in 1..Len(event[1].Accounts) :
            LET k == AccountKey(event[1].Accounts[j])
            IN  k \notin DOMAIN store0 =>
                /\ k \in DOMAIN store
                /\ BreachSet(store, k) = {event[1].BreachName}

\* a valid email without a record got one, in a table that held others
C5_Witness ==
    /\ Succeeded(1)
    /\ event[1].Accounts = <<RawBY>>
    /\ event[1].BreachName = "LeakA"
    /\ AccountKey(RawBY) \notin DOMAIN store0
    /\ AccountKey(RawAX) \in DOMAIN store0
    /\ store[AccountKey(RawBY)].Breaches.L = <<[S |-> "LeakA"]>>

(***************************************************************************)
(* The store calls of an invocation, as oplog records them.                *)
(***************************************************************************)
GetOp(i, ok) == [op |-> "get", i |-> i, ok |-> ok]
PutOp(i, ok) == [op |-> "put", i |-> i, ok |-> ok]

\* GetItem for entries 1..n in order, all successful but possibly the last
GetsUpTo(n, lastOk) ==
    [j \in 1..n |-> GetOp(j, (j < n) \/ lastOk)]

\* PutItem for entries 1..n in order, all successful but possibly the last
PutsUpTo(n, lastOk) ==
    [j \in 1..n |-> PutOp(j, (j < n) \/ lastOk)]

(***************************************************************************)
(* C6, as claimed.  When the GetItem of the k-th account fails, the        *)
(* invocation returns the read error, accounts 1..k-1 have been put with   *)
(* the breach name in their records, and nothing is issued for k+1..n.     *)
(***************************************************************************)
C6_EarlierAccountsWritten ==
    \A j \in 1..Len(oplog[1]) :
        oplog[1][j] = GetOp(oplog[1][j].i, FALSE) =>
            LET k == oplog[1][j].i
            IN  /\ pc[1] = "returned"
                /\ resp[1].StatusCode = 400
                /\ resp[1].err = GetItemErr
                /\ j = Len(oplog[1])
                /\ \A l \in 1..Len(oplog[1]) : oplog[1][l].i <= k
                /\ \A i \in 1..(k - 1) :
                      /\ \E l \in 1..(j - 1) : oplog[1][l] = PutOp(i, TRUE)
                      /\ event[1].BreachName \in
                            BreachSet(store, AccountKey(event[1].Accounts[i]))

(***************************************************************************)
(* C6, amended.  When the GetItem of the k-th account fails, the           *)
(* invocation returns 400 with the store's error, the calls issued are     *)
(* exactly the GetItems of accounts 1..k (no PutItem for any account, no   *)
(* GetItem for k+1..n), and the table is what it was when the invocation   *)
(* began.                                                                  *)
(***************************************************************************)
C6_ReadFailureWritesNothing ==
    \A j \in 1..Len(oplog[1]) :
        oplog[1][j] = GetOp(oplog[1][j].i, FALSE) =>
            /\ pc[1] = "returned"
            /\ resp[1].StatusCode = 400
            /\ resp[1].err = GetItemErr
            /\ oplog[1] = GetsUpTo(oplog[1][j].i, FALSE)
            /\ store = store0

\* the GetItem of the second of two accounts failed; the first, which had no
\* record, still has none
C6_Witness ==
    /\ pc[1] = "returned"
    /\ event[1].Accounts = <<RawAX, RawBY>>
    /\ oplog[1] = <<GetOp(1, TRUE), GetOp(2, FALSE)>>
    /\ AccountKey(RawAX) \notin DOMAIN store
    /\ AccountKey(RawBY) \in DOMAIN store

(***************************************************************************)
(* C7.  When the PutItem of the k-th account fails, the invocation returns *)
(* 400 with the store's error at once: that PutItem is the last call (no   *)
(* retry, no PutItem for k+1..n), the records of accounts 1..k-1 hold the  *)
(* merge that was put, and every other record is as the invocation found   *)
(* it.                                                                     *)
(***************************************************************************)
C7_WriteFailureFailsFast ==
    \A j \in 1..Len(oplog[1]) :
        oplog[1][j] = PutOp(oplog[1][j].i, FALSE) =>
            LET k == oplog[1][j].i
                batch == event[1].Accounts
                written == KeysOfFirst(batch, k - 1)
            IN  /\ pc[1] = "returned"
                /\ resp[1].StatusCode = 400
                /\ resp[1].Body = BodyErrorAdding
                /\ resp[1].err = PutItemErr
                /\ oplog[1] = GetsUpTo(Len(batch), TRUE) \o PutsUpTo(k, FALSE)
                /\ \A key \in written :
                      /\ key \in DOMAIN store
                      /\ BreachSet(store, key) =
                            BreachSet(store0, key) \cup {event[1].BreachName}
                /\ \A key \in ((DOMAIN store) \cup (DOMAIN store0)) \ written :
                      /\ key \in DOMAIN store
                      /\ key \in DOMAIN store0
                      /\ store[key] = store0[key]

\* the PutItem of the second of two accounts failed: the first has its new
\* record, the second keeps the record it had
C7_Witness ==
    /\ pc[1] = "returned"
    /\ event[1] = [Accounts |-> <<RawAX, RawBY>>, BreachName |-> "LeakB"]
    /\ oplog[1] = <<GetOp(1, TRUE), GetOp(2, TRUE), PutOp(1, TRUE),
                    PutOp(2, FALSE)>>
    /\ AccountKey(RawAX) \notin DOMAIN store0
    /\ BreachSet(store, AccountKey(RawAX)) = {"LeakB"}
    /\ BreachSet(store, AccountKey(RawBY)) = {"LeakA"}

(***************************************************************************)
(* C8, as claimed.  The calls alternate account by account: the PutItem of *)
(* account i is issued before the GetItem of account i+1.                  *)
(***************************************************************************)
C8_PutBeforeNextGet ==
    \A j \in 1..Len(oplog[1]) :
        (oplog[1][j].op = "get" /\ oplog[1][j].i > 1) =>
            \E l \in 1..(j - 1) :
                /\ oplog[1][l].op = "put"
                /\ oplog[1][l].i = oplog[1][j].i - 1

(***************************************************************************)
(* C8, amended.  The calls of an invocation on a batch of n accounts are   *)
(* a prefix of GetItem(a1), ..., GetItem(an), PutItem(a1), ...,            *)
(* PutItem(an): all reads in input order, then all writes in input order,  *)
(* and nothing after a call that failed.                                   *)
(***************************************************************************)
C8_AllGetsThenAllPuts ==
    LET n == Len(event[1].Accounts)
        log == oplog[1]
    IN  /\ Len(log) <= 2 * n
        /\ \A j \in 1..Len(log) :
              /\ log[j].op = (IF j <= n THEN "get" ELSE "put")
              /\ log[j].i = (IF j <= n THEN j ELSE j - n)
              /\ ~log[j].ok => j = Len(log)

\* a batch of two distinct accounts went through: two reads, then two writes
C8_Witness ==
    /\ Succeeded(1)
    /\ event[1].Accounts = <<RawAX, RawBY>>
    /\ oplog[1] = <<GetOp(1, TRUE), GetOp(2, TRUE), PutOp(1, TRUE),
                    PutOp(2, TRUE)>>

(***************************************************************************)
(* C9.  Two overlapping invocations on one account that both succeeded:    *)
(* the record holds the breach name of at least one of them, so an         *)
(* addition is lost only to a different name, and none when both submit    *)
(* the same name.  C9_LostUpdate is the state where one is lost.           *)
(***************************************************************************)
C9_OnlyADifferentNameIsLost ==
    \A p, q \in Procs :
        (/\ p # q
         /\ Succeeded(p) /\ Succeeded(q)
         /\ event[p].Accounts # <<>> /\ event[q].Accounts # <<>>) =>
            \/ event[p].BreachName \in BreachSet(store, AccountKey(RawAX))
            \/ event[q].BreachName \in BreachSet(store, AccountKey(RawAX))

\* both invocations read the account before either wrote it, both returned
\* 200, and the record lacks the name the first writer added
C9_LostUpdate ==
    /\ Succeeded(1) /\ Succeeded(2)
    /\ event[1] = [Accounts |-> <<RawAX>>, BreachName |-> "LeakA"]
    /\ event[2] = [Accounts |-> <<RawAX>>, BreachName |-> "LeakB"]
    /\ BreachSet(store, AccountKey(RawAX)) = {"LeakB"}

(***************************************************************************)
(* C10.  All or error: an invocation returns success only if every entry   *)
(* of its batch is a valid email whose record holds the breach name.       *)
(***************************************************************************)
C10_SuccessMeansAllProcessed ==
    Succeeded(1) =>
        \A j \in 1..Len(event[1].Accounts) :
            /\ MatchString(event[1].Accounts[j])
            /\ event[1].BreachName \in
                  BreachSet(store, AccountKey(event[1].Accounts[j]))

(***************************************************************************)
(* C11.  A failed GetItem is surfaced as a store-read failure: Handler     *)
(* returns 400 carrying the store's error, and not under the message of    *)
(* the invalid-email return.                                               *)
(***************************************************************************)
C11_ReadFailureNotInvalidEmail ==
    (pc[1] = "returned" /\ oplog[1] # <<>>
        /\ oplog[1][Len(oplog[1])] = GetOp(Len(oplog[1]), FALSE)) =>
        /\ resp[1].StatusCode = 400
        /\ resp[1].err = GetItemErr
        /\ resp[1].Body # BodyInvalidEmail

(***************************************************************************)
(* C12.  Success count: a 200 response reports as many accounts as the     *)
(* batch has entries, those whose record already held the breach name      *)
(* included.                                                               *)
(***************************************************************************)
C12_CountIsBatchLength ==
    Succeeded(1) => resp[1].Count = Len(event[1].Accounts)

\* a second run of the same batch of two changed no record and still
\* reports two accounts
C12_Witness ==
    /\ Succeeded(1)
    /\ rerun
    /\ store = store0
    /\ event[1].Accounts = <<RawAX, RawBY>>
    /\ resp[1].Count = 2

(***************************************************************************)
(* The parser on many strings: invocations on a batch of one raw string,   *)
(* each on the empty table.  The strings are all those of at most          *)
(* MaxRawLen characters over an alphabet with a letter and the three       *)
(* characters the grammar treats specially, and a few longer ones: the     *)
(* examples of the documentation and labels at the length limit.           *)
(***************************************************************************)
\* longest raw string drawn from ParseAlphabet
MaxRawLen == 4

ParseAlphabet == {"a", "@", ".", "-"}

\* n times the character c
Rep(c, n) == [j \in 1..n |-> c]

\* "bob@example.org"
RawBob ==
    <<"b","o","b","@","e","x","a","m","p","l","e",".","o","r","g">>

\* "user@-badlabel-.com"
RawBadLabel ==
    <<"u","s","e","r","@","-","b","a","d","l","a","b","e","l","-",".",
      "c","o","m">>

\* the longest label the grammar takes: 1 + {0,61} + 1 characters
MaxLabelLen == MaxLabelInner + 2

LongInputs ==
    {RawBob, RawBadLabel,
     <<"a", "@">> \o Rep("a", MaxLabelLen),
     <<"a", "@">> \o Rep("a", MaxLabelLen + 1),
     <<"a", "@", "a">> \o Rep("-", MaxLabelInner) \o <<"a">>,
     <<"a", "@", "a">> \o Rep("-", MaxLabelInner + 1) \o <<"a">>,
     <<"a", "@", "a", ".">> \o Rep("a", MaxLabelLen + 1),
     <<"a", "@">> \o Rep("a", MaxLabelLen + 1) \o <<".", "a">>}

ParseInputs == SeqsUpTo(ParseAlphabet, MaxRawLen) \cup LongInputs

ParseInvoke ==
    \E raw \in ParseInputs, n \in BreachNames :
        /\ pc[1] = "idle"
        /\ store = EmptyTable
        /\ Invoke(1, [Accounts |-> <<raw>>, BreachName |-> n])
        /\ store0' = store
        /\ rerun' = FALSE

NextParse ==
    \/ ParseInvoke
    \/ GetItemOk(1)
    \/ GetItemFail(1)
    \/ MarshalAccounts(1)
    \/ PutItemOk(1)
    \/ PutItemFail(1)
    \/ Respond(1)
    \/ SerialDeliver

SpecParse == Init /\ [][NextParse]_vars

\* the positions of '@' in a raw string
AtSigns(raw) == {i \in 1..Len(raw) : raw[i] = "@"}

\* everything before, and everything after, the one '@' of a raw string
BeforeAt(raw) ==
    SubSeq(raw, 1, (CHOOSE i \in AtSigns(raw) : TRUE) - 1)
AfterAt(raw) ==
    SubSeq(raw, (CHOOSE i \in AtSigns(raw) : TRUE) + 1, Len(raw))

(***************************************************************************)
(* C13.  Key derivation: a valid email has a single '@'; with alias what   *)
(* precedes it and domain what follows it, the account is read under, and  *)
(* its item written with, PK "EMAIL#" domain, SK "EMAIL#" alias and        *)
(* Account alias "@" domain.                                               *)
(***************************************************************************)
C13_KeyDerivation ==
    \A j \in 1..Len(event[1].Accounts) :
        LET raw == event[1].Accounts[j]
            pk == <<"E","M","A","I","L","#">> \o AfterAt(raw)
            sk == <<"E","M","A","I","L","#">> \o BeforeAt(raw)
            acct == BeforeAt(raw) \o <<"@">> \o AfterAt(raw)
        IN  MatchString(raw) =>
            /\ Cardinality(AtSigns(raw)) = 1
            /\ pc[1] = "get" =>
                  /\ accounts[1][j].PK = pk
                  /\ accounts[1][j].SK = sk
                  /\ accounts[1][j].Account = acct
            /\ pc[1] = "put" =>
                  /\ attrVals[1][j].PK.S = pk
                  /\ attrVals[1][j].SK.S = sk
                  /\ attrVals[1][j].Account.S = acct
            /\ Succeeded(1) =>
                  /\ <<pk, sk>> \in DOMAIN store
                  /\ store[<<pk, sk>>].PK.S = pk
                  /\ store[<<pk, sk>>].SK.S = sk
                  /\ store[<<pk, sk>>].Account.S = acct

\* "bob@example.org" is stored under "EMAIL#example.org" / "EMAIL#bob"
C13_Witness ==
    /\ Succeeded(1)
    /\ event[1].Accounts = <<RawBob>>
    /\ DOMAIN store =
          {<< <<"E","M","A","I","L","#","e","x","a","m","p","l","e",".",
                "o","r","g">>,
              <<"E","M","A","I","L","#","b","o","b">> >>}

(***************************************************************************)
(* C14.  Parser rejection: a string without '@' or with several, or whose  *)
(* domain has a label that is empty, longer than 63 characters, or that    *)
(* begins or ends with a hyphen, makes NewEmail return its error and the   *)
(* zero Email: nothing of the string becomes an alias or a domain.         *)
(***************************************************************************)
\* a label of the domain d lies between two neighbouring boundaries (a dot,
\* or the position before the first or after the last character)
BadDomain(d) ==
    LET bounds == {0, Len(d) + 1} \cup {i \in 1..Len(d) : d[i] = "."}
    IN  \E lo, hi \in bounds :
            /\ lo < hi
            /\ ~\E mid \in bounds : lo < mid /\ mid < hi
            /\ \/ hi = lo + 1
               \/ hi - lo - 1 > MaxLabelLen
               \/ d[lo + 1] = "-"
               \/ d[hi - 1] = "-"

BadShape(raw) ==
    \/ Cardinality(AtSigns(raw)) # 1
    \/ BadDomain(AfterAt(raw))

C14_ParserRejects ==
    \A j \in 1..Len(event[1].Accounts) :
        BadShape(event[1].Accounts[j]) =>
            /\ NewEmail(event[1].Accounts[j]) =
                  [email |-> ZeroEmail, err |-> NewEmailErr]
            /\ pc[1] = "get" =>
                  /\ accounts[1][j].PK = KeyPrefix
                  /\ accounts[1][j].SK = KeyPrefix
                  /\ accounts[1][j].Account = <<"@">>

\* "user@-badlabel-.com" has been parsed: the account built from the result
\* has an empty alias and an empty domain
C14_Witness ==
    /\ pc[1] = "get"
    /\ event[1].Accounts = <<RawBadLabel>>
    /\ NewEmail(RawBadLabel).err = NewEmailErr
    /\ accounts[1][1].Account = <<"@">>

(***************************************************************************)
(* C15.  One get and one put per entry: the store calls of an invocation   *)
(* that returned 200 are exactly one GetItem for each entry of the batch   *)
(* and then one PutItem for each, also for an entry whose record already   *)
(* held the breach name.                                                   *)
(***************************************************************************)
C15_OneGetOnePutPerEntry ==
    Succeeded(1) =>
        LET n == Len(event[1].Accounts)
        IN  /\ oplog[1] = GetsUpTo(n, TRUE) \o PutsUpTo(n, TRUE)
            /\ \A i \in 1..n :
                  /\ Cardinality({j \in 1..Len(oplog[1]) :
                                    oplog[1][j] = GetOp(i, TRUE)}) = 1
                  /\ Cardinality({j \in 1..Len(oplog[1]) :
                                    oplog[1][j] = PutOp(i, TRUE)}) = 1

\* the record already held the breach name, the table did not change, and
\* the account was still read once and put once
C15_Witness ==
    /\ Succeeded(1)
    /\ event[1] = [Accounts |-> <<RawAX>>, BreachName |-> "LeakA"]
    /\ "LeakA" \in BreachSet(store0, AccountKey(RawAX))
    /\ store = store0
    /\ oplog[1] = <<GetOp(1, TRUE), PutOp(1, TRUE)>>

(***************************************************************************)
(* C16.  Records only grow under serial use: no step of a sequence of      *)
(* invocations that do not overlap, successful or failed, removes an item  *)
(* from the table or a breach name from an item.                           *)
(***************************************************************************)
C16_RecordsOnlyGrow ==
    [][\A k \in DOMAIN store :
          /\ k \in DOMAIN store'
          /\ BreachSet(store, k) \subseteq BreachSet(store', k)]_vars

\* an invocation that failed at its second put has grown the record of its
\* first account, and every record it found is still there with its names
C16_Witness ==
    /\ pc[1] = "returned"
    /\ resp[1].StatusCode = 400
    /\ BreachSet(store0, AccountKey(RawAX)) = {"LeakA"}
    /\ BreachSet(store, AccountKey(RawAX)) = {"LeakA", "LeakB"}
    /\ \A k \in DOMAIN store0 :
          k \in DOMAIN store /\ BreachSet(store0, k) \subseteq BreachSet(store, k)

(***************************************************************************)
(* C17.  Well-formed written records: every item an invocation puts is a   *)
(* full item (PK, SK, Type, Account, Breaches) with Type "Account", with   *)
(* Account alias "@" domain, PK "EMAIL#" domain and SK "EMAIL#" alias for  *)
(* the alias and domain parsed from its entry of the batch (both empty     *)
(* when the parser rejected the entry), and with a non-empty Breaches that *)
(* holds the submitted breach name; the put overwrites the whole item.     *)
(***************************************************************************)
C17_WellFormedPuts ==
    pc[1] = "put" =>
        \A j \in 1..Len(attrVals[1]) :
            LET raw == event[1].Accounts[j]
                alias == IF MatchString(raw) THEN BeforeAt(raw) ELSE <<>>
                domain == IF MatchString(raw) THEN AfterAt(raw) ELSE <<>>
                pk == <<"E","M","A","I","L","#">> \o domain
                sk == <<"E","M","A","I","L","#">> \o alias
                item == attrVals[1][j]
            IN  /\ DOMAIN item = {"PK", "SK", "Type", "Account", "Breaches"}
                /\ item.Type.S = "Account"
                /\ item.Account.S = alias \o <<"@">> \o domain
                /\ item.PK.S = pk
                /\ item.SK.S = sk
                /\ Len(item.Breaches.L) >= 1
                /\ \E l \in 1..Len(item.Breaches.L) :
                      item.Breaches.L[l].S = event[1].BreachName
                /\ j < idx[1] => store[<<pk, sk>>] = item

\* the first of two items has been put: it holds the name the record had
\* and the submitted one
C17_Witness ==
    /\ pc[1] = "put"
    /\ idx[1] = 2
    /\ event[1] = [Accounts |-> <<RawAX, RawBY>>, BreachName |-> "LeakB"]
    /\ BreachSet(store0, AccountKey(RawAX)) = {"LeakA"}
    /\ store[AccountKey(RawAX)] = attrVals[1][1]
    /\ store[AccountKey(RawAX)].Breaches.L = <<[S |-> "LeakA"], [S |-> "LeakB"]>>

(***************************************************************************)
(* C18.  Frame: an invocation puts only under the keys of the valid emails *)
(* of its batch, and the item (or absence of an item) under every other    *)
(* key is what the invocation found.                                       *)
(***************************************************************************)
C18_OnlyValidBatchKeysChange ==
    pc[1] # "idle" =>
        LET batch == event[1].Accounts
            valid == {AccountKey(batch[j]) :
                        j \in {i \in 1..Len(batch) : MatchString(batch[i])}}
        IN  /\ \A j \in 1..Len(oplog[1]) :
                  oplog[1][j].op = "put" => MatchString(batch[oplog[1][j].i])
            /\ \A k \in ((DOMAIN store) \cup (DOMAIN store0)) \ valid :
                  /\ k \in DOMAIN store0
                  /\ k \in DOMAIN store
                  /\ store[k] = store0[k]

(***************************************************************************)
(* Two invocations on disjoint accounts: invocation 1 is given batches of  *)
(* "a@x", invocation 2 batches of "b@x", in rounds.  A round begins when   *)
(* one of them starts while the other waits; the other may start at any    *)
(* point of the first one's run, or after its return; the round ends when  *)
(* both responses are delivered.  store0 is the table as the round began.  *)
(***************************************************************************)
\* "b@x": a valid address in the domain of "a@x"
RawBX == <<"b", "@", "x">>

DisjEvents(p) ==
    [Accounts : SeqsUpTo({IF p = 1 THEN RawAX ELSE RawBX}, MaxBatch),
     BreachName : BreachNames]

DisjInvoke ==
    \E p \in Procs :
        \E ev \in DisjEvents(p) :
            /\ pc[p] = "idle"
            /\ Invoke(p, ev)
            /\ store0' = IF \A q \in Procs : pc[q] = "idle"
                         THEN store ELSE store0
            /\ rerun' = FALSE

\* the responses of the round reach their callers
DisjDeliver ==
    /\ \A p \in Procs : pc[p] \in {"idle", "returned"}
    /\ \E p \in Procs : pc[p] = "returned"
    /\ pc' = [p \in Procs |-> "idle"]
    /\ event' = [p \in Procs |-> NoEvent]
    /\ resp' = [p \in Procs |-> NoResponse]
    /\ oplog' = [p \in Procs |-> <<>>]
    /\ store0' = EmptyTable
    /\ rerun' = FALSE
    /\ UNCHANGED <<store, locals>>

NextDisj ==
    \/ DisjInvoke
    \/ \E p \in Procs : GetItemOk(p)
    \/ \E p \in Procs : GetItemFail(p)
    \/ \E p \in Procs : MarshalAccounts(p)
    \/ \E p \in Procs : PutItemOk(p)
    \/ \E p \in Procs : PutItemFail(p)
    \/ \E p \in Procs : Respond(p)
    \/ DisjDeliver

SpecDisj == Init /\ [][NextDisj]_vars

(***************************************************************************)
(* Handler run alone on a table with every store call succeeding: the      *)
(* table it leaves.  Every GetItem reads the table as found (no PutItem    *)
(* comes before the last GetItem), then the items are put in order.        *)
(***************************************************************************)
RECURSIVE PutAll(_, _, _)
PutAll(table, items, i) ==
    IF i > Len(items) THEN table
    ELSE PutAll(PutItem(table, items[i]), items, i + 1)

HandlerRun(table, ev) ==
    LET mapped == mapToAccount(ev.Accounts).accs
        merged == [j \in 1..Len(mapped) |->
                     SetBreaches(mapped[j],
                                 GetItem(table, mapped[j].PK, mapped[j].SK),
                                 ev.BreachName)]
    IN  PutAll(table, marshalMapToAttributeValues(merged), 1)

(***************************************************************************)
(* C19.  Disjoint batches do not interfere: when two invocations on        *)
(* disjoint accounts have both returned 200, however their store calls     *)
(* interleaved, the table is the one that running them one after the       *)
(* other, in either order, leaves; every account of either batch holds     *)
(* the breach name submitted for it.                                       *)
(***************************************************************************)
C19_DisjointBatchesCommute ==
    (Succeeded(1) /\ Succeeded(2)) =>
        /\ store = HandlerRun(HandlerRun(store0, event[1]), event[2])
        /\ store = HandlerRun(HandlerRun(store0, event[2]), event[1])
        /\ \A p \in Procs :
              \A j \in 1..Len(event[p].Accounts) :
                  event[p].BreachName \in
                      BreachSet(store, AccountKey(event[p].Accounts[j]))

\* both invocations added a name to a record that held another one
C19_Witness ==
    /\ Succeeded(1) /\ Succeeded(2)
    /\ event[1] = [Accounts |-> <<RawAX>>, BreachName |-> "LeakB"]
    /\ event[2] = [Accounts |-> <<RawBX>>, BreachName |-> "LeakA"]
    /\ BreachSet(store0, AccountKey(RawAX)) = {"LeakA"}
    /\ BreachSet(store0, AccountKey(RawBX)) = {"LeakB"}
    /\ BreachSet(store, AccountKey(RawAX)) = {"LeakA", "LeakB"}
    /\ BreachSet(store, AccountKey(RawBX)) = {"LeakA", "LeakB"}

====
